---------------------------- MODULE Spec2Model ----------------------------
(***************************************************************************)
(* A model of json_env_logger (src/src/lib.rs): the JSON record encoder    *)
(* `write`, the string escaper `write_json_str`, the logger constructors   *)
(* `builder` / `builder_from_env`, the registration entry points `init` /  *)
(* `try_init`, and the panic hook.                                         *)
(*                                                                         *)
(* A Rust `str` is modelled as the sequence of its UTF-8 bytes (numbers    *)
(* 0..255); a writer is the sequence of bytes written to it so far.        *)
(***************************************************************************)
EXTENDS Integers, Sequences, FiniteSets, TLC

VARIABLES
    features,   \* build configuration: [iso, backtrace] (cargo features)
    raw,        \* write_json_str: the argument of the call in progress
    writer,     \* write_json_str: the bytes written by the call
    record,     \* write: the log::Record being encoded
    f,          \* write: the bytes the stream has accepted
    pc,         \* write: position in the function body
    idx,        \* write: number of key/value pairs visited so far
    result,     \* write: how the call ended ("Ok", "Err", "panic")
    io_error,   \* write: whether the stream has refused a write call
    logger,     \* log crate: the registered global logger
    max_level,  \* log crate: log::max_level()
    registrations, \* number of loggers registered so far
    attempts,   \* number of init()/try_init()/builder init calls so far
    ret,        \* the last such call and how it ended
    hook,       \* whether panic_hook() has installed the hook
    panic_info, \* the panic the hook handled in the last step, if it did
    emitted,    \* the record logged in the last step, if one was
    target      \* the logger's target pipe: the bytes the last step wrote
                \* to it (the reader drains the pipe between steps)

vars == <<features, raw, writer, record, f, pc, idx, result, io_error, logger,
          max_level, registrations, attempts, ret, hook, panic_info, emitted,
          target>>

---------------------------------------------------------------------------
(* Bounds of the model. *)

\* longest argument of a direct write_json_str call, in characters
MaxStrLen == 3

\* longest record message, in characters
MaxMsgLen == 1

\* most key/value pairs a record carries
MaxAttrs == 2

\* most init()/try_init()/builder init calls in one behaviour
MaxInits == 2

---------------------------------------------------------------------------
(* Byte strings. *)

RECURSIVE Flatten(_)
Flatten(ss) == IF ss = <<>> THEN <<>> ELSE Head(ss) \o Flatten(Tail(ss))

\* sequences of at most n elements of S
SeqsUpTo(S, n) == UNION {[1..k -> S] : k \in 0..n}

\* the strings of at most n characters drawn from the character set C
\* (a character is the sequence of its UTF-8 bytes)
StrsUpTo(C, n) == {Flatten(cs) : cs \in SeqsUpTo(C, n)}

\* core::fmt::Display for unsigned integers: decimal digits, no leading zero
RECURSIVE Decimal(_)
Decimal(n) == IF n < 10 THEN <<48 + n>> ELSE Decimal(n \div 10) \o <<48 + (n % 10)>>

\* core::fmt::Display for signed integers
DisplayInt(n) == IF n < 0 THEN <<45>> \o Decimal(-n) ELSE Decimal(n)

\* {:0w} formatting of a non-negative number: decimal, zero-padded to w digits
RECURSIVE Padded(_, _)
Padded(n, w) == IF w <= 1 THEN Decimal(n) ELSE IF Len(Decimal(n)) >= w THEN Decimal(n) ELSE <<48>> \o Padded(n, w - 1)

---------------------------------------------------------------------------
(* The string escaper: write_json_str hands the string to                  *)
(* serde_json::to_writer, whose compact formatter writes the literal.      *)

\* ESCAPE with the backslash entry missing (a faulty table)
ESCAPE_keeps_backslash(byte) ==
    CASE byte = 8 -> 98
      [] byte = 9 -> 116
      [] byte = 10 -> 110
      [] byte = 12 -> 102
      [] byte = 13 -> 114
      [] byte < 32 -> 117
      [] byte = 34 -> 34
      [] OTHER -> 0

\* serde_json's ESCAPE table: 0 for a byte copied verbatim, else the letter
\* of its escape (b t n f r, u for the other control bytes, the byte itself
\* for the quote and the backslash)
ESCAPE(byte) ==
    CASE byte = 8 -> 98
      [] byte = 9 -> 116
      [] byte = 10 -> 110
      [] byte = 12 -> 102
      [] byte = 13 -> 114
      [] byte < 32 -> 117
      [] byte = 34 -> 34
      [] byte = 92 -> 92
      [] OTHER -> 0

\* serde_json's HEX_DIGITS: "0123456789abcdef"
HexDigit(d) == IF d < 10 THEN 48 + d ELSE 87 + d

\* write_char_escape writing \uXX, without the two leading zeros (faulty)
write_char_escape_two_digits(escape, byte) ==
    IF escape = 117
    THEN <<92, 117, HexDigit(byte \div 16), HexDigit(byte % 16)>>
    ELSE <<92, escape>>

\* Formatter::write_char_escape: backslash + letter, or \u00XX
write_char_escape(escape, byte) ==
    IF escape = 117
    THEN <<92, 117, 48, 48, HexDigit(byte \div 16), HexDigit(byte % 16)>>
    ELSE <<92, escape>>

\* a fragment is written only when it is not empty
Fragment(bytes, from, to) == IF from <= to THEN <<SubSeq(bytes, from, to)>> ELSE <<>>

\* format_escaped_str_contents: the writes it makes, in order.  The loop
\* passes over the bytes whose ESCAPE entry is 0 (continue); at the next
\* byte j that has an escape it writes the pending fragment start..j-1 and
\* the escape, and after the last byte the rest as a fragment.
RECURSIVE format_escaped_str_contents(_, _, _)
format_escaped_str_contents(bytes, i, start) ==
    LET escaped == {k \in i..Len(bytes) : ESCAPE(bytes[k]) # 0}
        j == CHOOSE k \in escaped : \A m \in escaped : k <= m
    IN  IF escaped = {}
        THEN Fragment(bytes, start, Len(bytes))
        ELSE Fragment(bytes, start, j - 1)
             \o <<write_char_escape(ESCAPE(bytes[j]), bytes[j])>>
             \o format_escaped_str_contents(bytes, j + 1, j + 1)

\* serde_json::to_writer(writer, raw): begin_string, the contents, end_string
to_writer(s) == <<(<<34>>)>> \o format_escaped_str_contents(s, 1, 1) \o <<(<<34>>)>>

\* write_json_str(writer, raw): the bytes the call writes
write_json_str(s) == Flatten(to_writer(s))

---------------------------------------------------------------------------
(* A JSON reader, used to state what the written bytes decode to.  It      *)
(* follows RFC 8259: objects, strings, numbers and the three literals,     *)
(* with insignificant whitespace; a repeated key keeps its last value.     *)

Bad == [ok |-> FALSE, pos |-> 0, v |-> <<>>]

Good(p, v) == [ok |-> TRUE, pos |-> p, v |-> v]

IsWs(b) == b \in {32, 9, 10, 13}

IsDigit(b) == b >= 48 /\ b <= 57

IsHex(b) == IsDigit(b) \/ (b >= 97 /\ b <= 102) \/ (b >= 65 /\ b <= 70)

HexVal(b) == IF IsDigit(b) THEN b - 48 ELSE IF b >= 97 THEN b - 87 ELSE b - 55

\* UTF-8 encoding of a code point of the basic multilingual plane
Utf8(cp) ==
    IF cp < 128 THEN <<cp>>
    ELSE IF cp < 2048 THEN <<192 + (cp \div 64), 128 + (cp % 64)>>
    ELSE <<224 + (cp \div 4096), 128 + ((cp \div 64) % 64), 128 + (cp % 64)>>

RECURSIVE SkipWs(_, _)
SkipWs(s, p) == IF p <= Len(s) /\ IsWs(s[p]) THEN SkipWs(s, p + 1) ELSE p

SimpleUnescape(b) ==
    CASE b = 34 -> 34
      [] b = 92 -> 92
      [] b = 47 -> 47
      [] b = 98 -> 8
      [] b = 102 -> 12
      [] b = 110 -> 10
      [] b = 114 -> 13
      [] b = 116 -> 9
      [] OTHER -> -1

\* the first position at or after p of a byte that ends a run of plain
\* characters: a quote, a backslash or a control byte (0 if there is none)
NextStop(s, p) ==
    LET stops == {k \in p..Len(s) : s[k] = 34 \/ s[k] = 92 \/ s[k] < 32}
    IN  IF stops = {} THEN 0 ELSE CHOOSE k \in stops : \A j \in stops : k <= j

\* the characters of a string literal from position p (just after the
\* opening quote) to its closing quote: runs of plain characters are taken
\* as they are, an escape is decoded
RECURSIVE ReadChars(_, _, _)
ReadChars(s, p, acc) ==
    LET q == NextStop(s, p)
        run == acc \o SubSeq(s, p, q - 1)
    IN  IF q = 0 THEN Bad
        ELSE IF s[q] = 34 THEN Good(q + 1, run)
        ELSE IF s[q] < 32 THEN Bad
        ELSE IF q + 1 > Len(s) THEN Bad
        ELSE IF s[q + 1] = 117
             THEN IF q + 5 <= Len(s) /\ \A k \in 2..5 : IsHex(s[q + k])
                  THEN LET cp == 4096 * HexVal(s[q + 2]) + 256 * HexVal(s[q + 3])
                                 + 16 * HexVal(s[q + 4]) + HexVal(s[q + 5])
                       IN  IF cp >= 55296 /\ cp <= 57343 THEN Bad
                           ELSE ReadChars(s, q + 6, run \o Utf8(cp))
                  ELSE Bad
        ELSE IF SimpleUnescape(s[q + 1]) < 0 THEN Bad
        ELSE ReadChars(s, q + 2, Append(run, SimpleUnescape(s[q + 1])))

ReadString(s, p) == IF p <= Len(s) /\ s[p] = 34 THEN ReadChars(s, p + 1, <<>>) ELSE Bad

\* the text a complete JSON string literal decodes to
JsonStrDecode(s) ==
    LET r == ReadString(s, 1)
    IN  IF r.ok /\ r.pos = Len(s) + 1 THEN [ok |-> TRUE, v |-> r.v] ELSE [ok |-> FALSE, v |-> <<>>]

RECURSIVE SkipDigits(_, _)
SkipDigits(s, p) == IF p <= Len(s) /\ IsDigit(s[p]) THEN SkipDigits(s, p + 1) ELSE p

\* number = [ - ] int [ frac ] [ exp ]
ReadNumber(s, p) ==
    LET p1 == IF p <= Len(s) /\ s[p] = 45 THEN p + 1 ELSE p
        p2 == IF p1 <= Len(s) /\ s[p1] = 48 THEN p1 + 1 ELSE SkipDigits(s, p1)
        p3 == IF p2 <= Len(s) /\ s[p2] = 46 THEN SkipDigits(s, p2 + 1) ELSE p2
        e1 == IF p3 + 1 <= Len(s) /\ s[p3 + 1] \in {43, 45} THEN p3 + 2 ELSE p3 + 1
        p4 == IF p3 <= Len(s) /\ s[p3] \in {69, 101} THEN SkipDigits(s, e1) ELSE p3
    IN  IF p2 = p1 THEN Bad
        ELSE IF p2 <= Len(s) /\ s[p2] = 46 /\ p3 = p2 + 1 THEN Bad
        ELSE IF p3 <= Len(s) /\ s[p3] \in {69, 101} /\ p4 = e1 THEN Bad
        ELSE Good(p4, [t |-> "number", s |-> SubSeq(s, p, p4 - 1)])

ReadLiteral(s, p, word) ==
    IF p + Len(word) - 1 <= Len(s) /\ SubSeq(s, p, p + Len(word) - 1) = word
    THEN Good(p + Len(word), [t |-> "literal", s |-> word])
    ELSE Bad

RECURSIVE ReadValue(_, _)
RECURSIVE ReadMembers(_, _, _)

\* the members of an object from position p (a key is expected there)
ReadMembers(s, p, acc) ==
    LET k == ReadString(s, SkipWs(s, p))
        c == SkipWs(s, k.pos)
        v == ReadValue(s, SkipWs(s, c + 1))
        d == SkipWs(s, v.pos)
    IN  IF ~k.ok \/ c > Len(s) \/ s[c] # 58 THEN Bad
        ELSE IF ~v.ok \/ d > Len(s) THEN Bad
        ELSE IF s[d] = 125 THEN Good(d + 1, Append(acc, [key |-> k.v, val |-> v.v]))
        ELSE IF s[d] = 44 THEN ReadMembers(s, d + 1, Append(acc, [key |-> k.v, val |-> v.v]))
        ELSE Bad

ReadValue(s, p) ==
    IF p > Len(s) THEN Bad
    ELSE IF s[p] = 34
         THEN LET r == ReadString(s, p)
              IN  IF r.ok THEN Good(r.pos, [t |-> "string", s |-> r.v]) ELSE Bad
    ELSE IF s[p] = 123
         THEN LET q == SkipWs(s, p + 1)
              IN  IF q <= Len(s) /\ s[q] = 125
                  THEN Good(q + 1, [t |-> "object", s |-> <<>>])
                  ELSE LET r == ReadMembers(s, p + 1, <<>>)
                       IN  IF r.ok THEN Good(r.pos, [t |-> "object", s |-> r.v]) ELSE Bad
    ELSE IF s[p] = 116 THEN ReadLiteral(s, p, <<116, 114, 117, 101>>)
    ELSE IF s[p] = 102 THEN ReadLiteral(s, p, <<102, 97, 108, 115, 101>>)
    ELSE IF s[p] = 110 THEN ReadLiteral(s, p, <<110, 117, 108, 108>>)
    ELSE IF s[p] = 45 \/ IsDigit(s[p]) THEN ReadNumber(s, p)
    ELSE Bad

\* one JSON document: a value with only whitespace around it
JsonParse(s) ==
    LET r == ReadValue(s, SkipWs(s, 1))
    IN  IF r.ok /\ SkipWs(s, r.pos) = Len(s) + 1 THEN [ok |-> TRUE, v |-> r.v] ELSE [ok |-> FALSE, v |-> <<>>]

\* the text parses as a JSON object
IsJsonObject(s) == JsonParse(s).ok /\ JsonParse(s).v.t = "object"

\* the keys of a parsed object, in the order they are written
KeysOf(s) == LET m == JsonParse(s).v.s IN [k \in 1..Len(m) |-> m[k].key]

\* the value a parsed object holds under key (the last member of that name)
HasKey(s, key) == \E k \in 1..Len(JsonParse(s).v.s) : JsonParse(s).v.s[k].key = key

Lookup(s, key) ==
    LET m == JsonParse(s).v.s
        last == CHOOSE k \in 1..Len(m) : m[k].key = key /\ \A j \in (k + 1)..Len(m) : m[j].key # key
    IN  m[last].val

---------------------------------------------------------------------------
(* Records: log::Record as the encoder reads it.                           *)

\* log::Level: Error = 1 .. Trace = 5 (a lower number is more severe)
Levels == 1..5

\* <log::Level as Display>::fmt
LevelName(l) ==
    CASE l = 1 -> <<69, 82, 82, 79, 82>>
      [] l = 2 -> <<87, 65, 82, 78>>
      [] l = 3 -> <<73, 78, 70, 79>>
      [] l = 4 -> <<68, 69, 66, 85, 71>>
      [] OTHER -> <<84, 82, 65, 67, 69>>

\* log::kv::Value: the scalar kinds a record carries.  A float is the
\* decimal n / 10^d (d fraction digits, the last one not 0) or NaN.
Str(s) == [kind |-> "str", s |-> s, n |-> 0, d |-> 0, b |-> FALSE]

I64(n) == [kind |-> "i64", s |-> <<>>, n |-> n, d |-> 0, b |-> FALSE]

F64(n, d) == [kind |-> "f64", s |-> <<>>, n |-> n, d |-> d, b |-> FALSE]

NaN == [kind |-> "f64", s |-> <<>>, n |-> 0, d |-> 0, b |-> TRUE]

Bool(b) == [kind |-> "bool", s |-> <<>>, n |-> 0, d |-> 0, b |-> b]

RECURSIVE Pow10(_)
Pow10(d) == IF d = 0 THEN 1 ELSE 10 * Pow10(d - 1)

Abs(n) == IF n < 0 THEN -n ELSE n

\* <f64 as Display>::fmt: sign, integer part, and the fraction digits if any
DisplayF64(v) ==
    IF v.b THEN <<78, 97, 78>>
    ELSE (IF v.n < 0 THEN <<45>> ELSE <<>>)
         \o Decimal(Abs(v.n) \div Pow10(v.d))
         \o (IF v.d = 0 THEN <<>> ELSE <<46>> \o Padded(Abs(v.n) % Pow10(v.d), v.d))

\* <kv::Value as Display>::fmt, as visit_pair's "{}" formats the value: a
\* text value is written as it is, without quotes and without escaping
\* (the log crate that env_logger's Target::Pipe, used by the tests, builds
\* against; Debug, not Display, is what quotes a text value)
DisplayValue(v) ==
    CASE v.kind = "str" -> v.s
      [] v.kind = "i64" -> DisplayInt(v.n)
      [] v.kind = "f64" -> DisplayF64(v)
      [] OTHER -> IF v.b THEN <<116, 114, 117, 101>> ELSE <<102, 97, 108, 115, 101>>

\* <kv::Key as Display>::fmt: the key's text as it is
DisplayKey(k) == k

\* the characters record messages are made of: a letter and the quote
MsgChars == {<<97>>, <<34>>}

Msgs == StrsUpTo(MsgChars, MaxMsgLen)

\* the key/value pairs records are made of: the pairs of the examples
\* (task_id: 567, thread_id: "12", foo: 2.3), a key that repeats msg, a
\* text value with a line break, and a key with a quote whose value has
\* raw quotes and braces
Pairs ==
    { [key |-> <<105, 100>>, val |-> I64(567)],
      [key |-> <<116>>, val |-> Str(<<49, 50>>)],
      [key |-> <<102>>, val |-> F64(23, 1)],
      [key |-> <<109, 115, 103>>, val |-> Bool(TRUE)],
      [key |-> <<108>>, val |-> Str(<<97, 10, 98>>)],
      [key |-> <<99, 34, 107>>, val |-> Str(<<123, 34, 120, 34, 125>>)] }

Records == [level : Levels, args : Msgs, key_values : SeqsUpTo(Pairs, MaxAttrs)]

NoRecord == [level |-> 0, args |-> <<>>, key_values |-> <<>>]

---------------------------------------------------------------------------
(* The time source.                                                        *)

\* milliseconds since the Unix epoch the clock may read.  The clock is at
\* or after the epoch: UNIX_EPOCH.elapsed().unwrap() has no other outcome
\* the encoder handles.
Clock == {0, 1234567890}

\* days since 1970-01-01 -> [y, m, d] (proleptic Gregorian calendar), as
\* chrono's NaiveDate computes it
CivilFromDays(days) ==
    LET z == days + 719468
        era == z \div 146097
        doe == z - era * 146097
        yoe == (doe - doe \div 1460 + doe \div 36524 - doe \div 146096) \div 365
        doy == doe - (365 * yoe + yoe \div 4 - yoe \div 100)
        mp == (5 * doy + 2) \div 153
        m == IF mp < 10 THEN mp + 3 ELSE mp - 9
    IN  [y |-> yoe + era * 400 + (IF m <= 2 THEN 1 ELSE 0), m |-> m, d |-> doy - (153 * mp + 2) \div 5 + 1]

\* DateTime<Utc>::to_rfc3339_opts(SecondsFormat::Millis, true)
to_rfc3339_opts(ms) ==
    LET date == CivilFromDays(ms \div 86400000)
        t == ms % 86400000
    IN  Padded(date.y, 4) \o <<45>> \o Padded(date.m, 2) \o <<45>> \o Padded(date.d, 2)
        \o <<84>> \o Padded(t \div 3600000, 2) \o <<58>> \o Padded((t \div 60000) % 60, 2)
        \o <<58>> \o Padded((t \div 1000) % 60, 2) \o <<46>> \o Padded(t % 1000, 3) \o <<90>>

---------------------------------------------------------------------------
(* write(f, record): what each statement hands to the stream.  A statement *)
(* is a sequence of pieces, one per write call the formatting machinery    *)
(* makes: the literal parts of the format string and each argument.        *)

\* write!(f, "{{")
OpenPieces == << <<123>> >>

\* the level statement with the comma after the field missing (faulty)
LevelPieces_no_comma(r) == << <<34, 108, 101, 118, 101, 108, 34, 58, 34>>, LevelName(r.level), <<34>> >>

\* write!(f, "\"level\":\"{}\",", record.level())
LevelPieces(r) == << <<34, 108, 101, 118, 101, 108, 34, 58, 34>>, LevelName(r.level), <<34, 44>> >>

\* write!(f, "\"ts\":{}", millis) or, with iso-timestamps, "\"ts\":\"{}\""
TsPieces(iso, now) ==
    IF iso
    THEN << <<34, 116, 115, 34, 58, 34>>, to_rfc3339_opts(now), <<34>> >>
    ELSE << <<34, 116, 115, 34, 58>>, Decimal(now) >>

\* write!(f, ",\"msg\":")
MsgKeyPieces == << <<44, 34, 109, 115, 103, 34, 58>> >>

\* write_json_str(f, &record.args().to_string())
MsgPieces(r) == to_writer(r.args)

\* visit_pair: write!(self.writer, ",\"{}\":{}", key, val)
PairPieces(kv) == << <<44, 34>>, DisplayKey(kv.key), <<34, 58>>, DisplayValue(kv.val) >>

\* writeln!(f, "}}")
ClosePieces == << <<125, 10>> >>

\* the pieces a visit of all the record's pairs writes, in record order
RECURSIVE VisitPieces(_)
VisitPieces(kvs) == IF kvs = <<>> THEN <<>> ELSE PairPieces(Head(kvs)) \o VisitPieces(Tail(kvs))

\* the bytes a call of write that meets no stream error writes
write(r, iso, now) ==
    Flatten(OpenPieces \o LevelPieces(r) \o TsPieces(iso, now) \o MsgKeyPieces
            \o MsgPieces(r) \o VisitPieces(r.key_values) \o ClosePieces)


---------------------------------------------------------------------------
(* Calls of the two functions.  A call of write runs statement by          *)
(* statement; the stream may refuse any write call, and then the pieces    *)
(* before it stay written.                                                 *)

\* the characters the arguments of direct write_json_str calls are made of
EscChars ==
    { <<34>>, <<92>>, <<10>>, <<9>>, <<13>>, <<8>>, <<12>>, <<0>>, <<31>>,
      <<97>>, <<47>>, <<123>>, <<127>>, <<195, 169>>, <<226, 130, 172>> }

loggerVars == <<logger, max_level, registrations, attempts, ret, hook, panic_info, emitted, target>>

encoderVars == <<raw, writer, record, f, pc, idx, result, io_error>>

\* no logger registered, nothing logged, no hook
NoLogger == [filter |-> 0, format |-> "none"]

NoInfo ==
    [ payload |-> [kind |-> "none", s |-> <<>>],
      thread |-> [some |-> FALSE, name |-> <<>>],
      location |-> [some |-> FALSE, file |-> <<>>, line |-> 0] ]

InitLoggerIdle ==
    /\ logger = NoLogger
    /\ max_level = 0
    /\ registrations = 0
    /\ attempts = 0
    /\ ret = [op |-> "none", result |-> "none"]
    /\ hook = FALSE
    /\ panic_info = NoInfo
    /\ emitted = NoRecord
    /\ target = <<>>

InitEncoderIdle ==
    /\ raw = <<>>
    /\ writer = <<>>
    /\ record = NoRecord
    /\ f = <<>>
    /\ pc = "idle"
    /\ idx = 0
    /\ result = "none"
    /\ io_error = FALSE

Init ==
    /\ features \in [iso : BOOLEAN, backtrace : {FALSE}]
    /\ InitEncoderIdle
    /\ InitLoggerIdle

\* write_json_str(&mut writer, raw) on a writer that accepts every byte
call_write_json_str ==
    /\ pc = "idle"
    /\ \E s \in StrsUpTo(EscChars, MaxStrLen) :
          /\ raw' = s
          /\ writer' = write_json_str(s)
    /\ pc' = "escaped"
    /\ UNCHANGED <<features, record, f, idx, result, io_error, loggerVars>>

\* write(f, record) is entered
call_write ==
    /\ pc = "idle"
    /\ record' \in Records
    /\ pc' = "open"
    /\ UNCHANGED <<features, raw, writer, f, idx, result, io_error, loggerVars>>

\* one statement ending in `?`: all its pieces are written and the body
\* goes on, or a write call fails and the error is returned
Statement(pieces, next) ==
    /\ \/ /\ f' = f \o Flatten(pieces)
          /\ pc' = next
          /\ result' = result
          /\ io_error' = io_error
       \/ \E j \in 0..(Len(pieces) - 1) :
             /\ f' = f \o Flatten(SubSeq(pieces, 1, j))
             /\ pc' = "returned"
             /\ result' = "Err"
             /\ io_error' = TRUE
    /\ UNCHANGED <<features, raw, writer, record, idx, loggerVars>>

WriteOpen == pc = "open" /\ Statement(OpenPieces, "level")

WriteLevel == pc = "level" /\ Statement(LevelPieces(record), "ts")

WriteTs == pc = "ts" /\ \E now \in Clock : Statement(TsPieces(features.iso, now), "msg_key")

WriteMsgKey == pc = "msg_key" /\ Statement(MsgKeyPieces, "msg")

WriteMsg == pc = "msg" /\ Statement(MsgPieces(record), "visit")

\* visit_pair for the next pair: write!(..).unwrap() panics on a write
\* error, otherwise the visit goes on
visit_pair ==
    /\ pc = "visit"
    /\ idx < Len(record.key_values)
    /\ LET pieces == PairPieces(record.key_values[idx + 1])
       IN  \/ /\ f' = f \o Flatten(pieces)
              /\ idx' = idx + 1
              /\ pc' = pc
              /\ result' = result
              /\ io_error' = io_error
           \/ \E j \in 0..(Len(pieces) - 1) :
                 /\ f' = f \o Flatten(SubSeq(pieces, 1, j))
                 /\ idx' = idx
                 /\ pc' = "returned"
                 /\ result' = "panic"
                 /\ io_error' = TRUE
    /\ UNCHANGED <<features, raw, writer, record, loggerVars>>

\* writeln!(f, "}}"): its result is the result of write
WriteClose ==
    /\ pc = "visit"
    /\ idx = Len(record.key_values)
    /\ \/ /\ f' = f \o Flatten(ClosePieces)
          /\ result' = "Ok"
          /\ io_error' = io_error
       \/ /\ f' = f
          /\ result' = "Err"
          /\ io_error' = TRUE
    /\ pc' = "returned"
    /\ UNCHANGED <<features, raw, writer, record, idx, loggerVars>>

Next ==
    \/ call_write_json_str
    \/ call_write
    \/ WriteOpen
    \/ WriteLevel
    \/ WriteTs
    \/ WriteMsgKey
    \/ WriteMsg
    \/ visit_pair
    \/ WriteClose

Spec == Init /\ [][Next]_vars


---------------------------------------------------------------------------
(* The logger: construction, registration, log calls and the panic hook.   *)

\* log::LevelFilter: Off = 0, Error = 1 .. Trace = 5
LevelFilters == 0..5

EnvNames == {"RUST_LOG", "FOO_LOG"}

\* what an environment variable may hold: nothing, or a level name
EnvValues == {"unset", "off", "error", "warn", "info", "debug", "trace"}

\* the environments a builder may find: the variable it reads holds any
\* of the values, no other variable is set
Envs(name) == {[n \in EnvNames |-> IF n = name THEN v ELSE "unset"] : v \in EnvValues}

\* the levels a caller passes to Builder::filter_level (the tests pass Info)
FilterLevels == {3}

\* env_logger's reading of a level directive; without one the filter is Error
from_env(value) ==
    CASE value = "off" -> 0
      [] value = "warn" -> 2
      [] value = "info" -> 3
      [] value = "debug" -> 4
      [] value = "trace" -> 5
      [] OTHER -> 1

\* builder_from_env without builder.format(write): env_logger's own format
builder_from_env_default_format(env_var_name, e) == [filter |-> from_env(e[env_var_name]), format |-> "default"]

\* builder_from_env(env_var_name): Builder::from_env, then format(write)
builder_from_env(env_var_name, e) == [filter |-> from_env(e[env_var_name]), format |-> "write"]

\* builder(): Builder::from_default_env, which reads RUST_LOG, then format(write)
builder(e) == [filter |-> from_env(e["RUST_LOG"]), format |-> "write"]

\* Builder::filter_level(level) on a builder
filter_level(b, level) == [b EXCEPT !.filter = level]

\* set_boxed_logger that replaces a logger already registered (faulty)
set_boxed_logger_replacing(current, new) == [logger |-> new, ok |-> TRUE]

\* log::set_boxed_logger as Builder::try_init calls it: the first logger
\* is kept, a later one is refused with SetLoggerError
set_boxed_logger(current, new) ==
    IF current = NoLogger
    THEN [logger |-> new, ok |-> TRUE]
    ELSE [logger |-> current, ok |-> FALSE]

\* env_logger's default format, reduced to "[LEVEL] message"; only a
\* builder without format(write) would use it
default_format(r) == <<91>> \o LevelName(r.level) \o <<93, 32>> \o r.args \o <<10>>

\* the bytes the registered logger formats the record to
Format(r, now) ==
    IF logger.format = "write" THEN write(r, features.iso, now) ELSE default_format(r)

\* the macro's level check and Logger::log's: the record is written when
\* its level passes log::max_level() and the logger's filter
Enabled(r) == logger # NoLogger /\ r.level <= max_level /\ r.level <= logger.filter

\* one log call with record r: the logger formats the record into its
\* buffer with write and prints the buffer to the target, or does nothing
Deliver(r) ==
    /\ emitted' = r
    /\ IF Enabled(r)
       THEN \E now \in Clock : target' = Format(r, now)
       ELSE target' = <<>>

\* the records of plain log calls: messages without and with attributes
LogRecords ==
    [level : Levels, args : {<<72, 101, 108, 108, 111>>}, key_values : {<<>>}]
    \cup [level : Levels, args : {<<97, 34>>},
          key_values : { <<[key |-> <<105, 100>>, val |-> I64(567)]>>,
                         <<[key |-> <<109, 115, 103>>, val |-> Bool(TRUE)]>>,
                         <<[key |-> <<99, 34, 107>>, val |-> Str(<<123, 34, 120, 34, 125>>)]>> }]

\* the panics: a payload that is a &'static str, a String or something
\* else, on a named or an unnamed thread, with or without a location
Payloads ==
    { [kind |-> "str", s |-> <<98, 111, 111, 109>>],
      [kind |-> "String", s |-> <<97, 34, 98>>],
      [kind |-> "other", s |-> <<>>] }

ThreadNames == { [some |-> TRUE, name |-> <<109, 97, 105, 110>>], [some |-> FALSE, name |-> <<>>] }

Locations == { [some |-> TRUE, file |-> <<109, 46, 114, 115>>, line |-> 7], [some |-> FALSE, file |-> <<>>, line |-> 0] }

PanicInfos == [payload : Payloads, thread : ThreadNames, location : Locations]

\* format!("{:?}", backtrace::Backtrace::new()): some frames, one per line
BacktraceText == <<48, 58, 32, 102, 10, 49, 58, 32, 109, 97, 105, 110, 10>>

\* the hook's record with an unnamed thread's name left empty (faulty)
PanicRecord_no_fallback(info) ==
    LET msg == IF info.payload.kind \in {"str", "String"} THEN info.payload.s ELSE <<66, 111, 120, 60, 65, 110, 121, 62>>
        location == info.location.file \o <<58>> \o Decimal(info.location.line)
    IN  [ level |-> 1,
          args |-> <<112, 97, 110, 105, 99, 107, 101, 100, 32, 97, 116, 32, 39>> \o msg \o <<39>>,
          key_values |->
              << [key |-> <<116, 104, 114, 101, 97, 100>>, val |-> Str(info.thread.name)] >>
              \o (IF info.location.some THEN << [key |-> <<108, 111, 99, 97, 116, 105, 111, 110>>, val |-> Str(location)] >> ELSE <<>>)
              \o (IF features.backtrace THEN << [key |-> <<98, 97, 99, 107, 116, 114, 97, 99, 101>>, val |-> Str(BacktraceText)] >> ELSE <<>>) ]

\* the record the hook's closure logs for a panic
PanicRecord(info) ==
    LET thread == IF info.thread.some THEN info.thread.name ELSE <<117, 110, 110, 97, 109, 101, 100>>
        msg == IF info.payload.kind \in {"str", "String"} THEN info.payload.s ELSE <<66, 111, 120, 60, 65, 110, 121, 62>>
        location == info.location.file \o <<58>> \o Decimal(info.location.line)
    IN  [ level |-> 1,
          args |-> <<112, 97, 110, 105, 99, 107, 101, 100, 32, 97, 116, 32, 39>> \o msg \o <<39>>,
          key_values |->
              << [key |-> <<116, 104, 114, 101, 97, 100>>, val |-> Str(thread)] >>
              \o (IF info.location.some THEN << [key |-> <<108, 111, 99, 97, 116, 105, 111, 110>>, val |-> Str(location)] >> ELSE <<>>)
              \o (IF features.backtrace THEN << [key |-> <<98, 97, 99, 107, 116, 114, 97, 99, 101>>, val |-> Str(BacktraceText)] >> ELSE <<>>) ]

\* the panic of init(): unwrap on the SetLoggerError, at src/lib.rs:49
InitPanic(thread) ==
    [ payload |-> [kind |-> "String", s |-> <<99, 97, 108, 108, 101, 100, 32, 96, 82, 101, 115, 117, 108, 116, 58, 58, 117, 110, 119, 114, 97, 112, 40, 41, 96, 32, 111, 110, 32, 97, 110, 32, 96, 69, 114, 114, 96, 32, 118, 97, 108, 117, 101, 58, 32, 83, 101, 116, 76, 111, 103, 103, 101, 114, 69, 114, 114, 111, 114, 40, 40, 41, 41>>],
      thread |-> thread,
      location |-> [some |-> TRUE, file |-> <<115, 114, 99, 47, 108, 105, 98, 46, 114, 115>>, line |-> 49] ]

\* a step that logs nothing leaves the target pipe empty
NothingLogged ==
    /\ panic_info' = NoInfo
    /\ emitted' = NoRecord
    /\ target' = <<>>

\* Builder::try_init with the builder b: registers the logger and sets
\* the max level, or leaves both and reports SetLoggerError
Register(op, b) ==
    LET r == set_boxed_logger(logger, b)
    IN  /\ logger' = r.logger
        /\ max_level' = IF r.ok THEN b.filter ELSE max_level
        /\ registrations' = IF r.ok THEN registrations + 1 ELSE registrations
        /\ attempts' = attempts + 1
        /\ ret' = [op |-> op, result |-> IF r.ok THEN "Ok" ELSE "SetLoggerError"]

\* try_init(): builder().try_init()
try_init ==
    /\ attempts < MaxInits
    /\ \E e \in Envs("RUST_LOG") : Register("try_init", builder(e))
    /\ NothingLogged
    /\ UNCHANGED <<features, encoderVars, hook>>

\* init(): try_init().unwrap(), which panics on SetLoggerError; an
\* installed hook then logs the panic
init ==
    /\ attempts < MaxInits
    /\ \E e \in Envs("RUST_LOG") :
          LET r == set_boxed_logger(logger, builder(e))
          IN  \/ /\ r.ok
                 /\ Register("init", builder(e))
                 /\ NothingLogged
              \/ /\ ~r.ok
                 /\ ~hook
                 /\ attempts' = attempts + 1
                 /\ ret' = [op |-> "init", result |-> "panic"]
                 /\ NothingLogged
                 /\ UNCHANGED <<logger, max_level, registrations>>
              \/ /\ ~r.ok
                 /\ hook
                 /\ attempts' = attempts + 1
                 /\ ret' = [op |-> "init", result |-> "panic"]
                 /\ \E t \in ThreadNames :
                       /\ panic_info' = InitPanic(t)
                       /\ Deliver(PanicRecord(InitPanic(t)))
                 /\ UNCHANGED <<logger, max_level, registrations>>
    /\ UNCHANGED <<features, encoderVars, hook>>

\* a caller's own builder()/builder_from_env(V) chain ending in
\* try_init(), with the filter read from the environment or set by
\* filter_level(..)
builder_init ==
    /\ attempts < MaxInits
    /\ \E name \in EnvNames :
          \/ \E e \in Envs(name) :
                Register("builder", IF name = "RUST_LOG" THEN builder(e) ELSE builder_from_env(name, e))
          \/ \E level \in FilterLevels, e \in {[n \in EnvNames |-> "unset"]} :
                Register("builder", filter_level(IF name = "RUST_LOG" THEN builder(e) ELSE builder_from_env(name, e), level))
    /\ NothingLogged
    /\ UNCHANGED <<features, encoderVars, hook>>

\* panic_hook(): panic::set_hook with the JSON closure
panic_hook ==
    /\ ~hook
    /\ hook' = TRUE
    /\ NothingLogged
    /\ UNCHANGED <<features, encoderVars, logger, max_level, registrations, attempts, ret>>

\* a log macro call of the application
log_call ==
    /\ \E r \in LogRecords : Deliver(r)
    /\ panic_info' = NoInfo
    /\ UNCHANGED <<features, encoderVars, logger, max_level, registrations, attempts, ret, hook>>

\* a panic while the hook is installed: the closure logs its record
panic ==
    /\ hook
    /\ \E info \in PanicInfos :
          /\ panic_info' = info
          /\ Deliver(PanicRecord(info))
    /\ UNCHANGED <<features, encoderVars, logger, max_level, registrations, attempts, ret, hook>>

InitLogger ==
    /\ features \in [iso : {FALSE}, backtrace : BOOLEAN]
    /\ InitEncoderIdle
    /\ InitLoggerIdle

NextLogger ==
    \/ try_init
    \/ init
    \/ builder_init
    \/ panic_hook
    \/ log_call
    \/ panic

SpecLogger == InitLogger /\ [][NextLogger]_vars

---------------------------------------------------------------------------
(* Properties of the escaper and of the encoder (specification Spec).      *)

\* the number of bytes of the UTF-8 character that starts with byte b
CharLen(b) == IF b < 128 THEN 1 ELSE IF b < 224 THEN 2 ELSE IF b < 240 THEN 3 ELSE 4

\* w is what the escaping rules give for the character ch
EscapedAs(ch, w) ==
    IF Len(ch) > 1 THEN w = ch
    ELSE CASE ch = <<34>> -> w = <<92, 34>>
           [] ch = <<92>> -> w = <<92, 92>>
           [] ch = <<10>> -> w = <<92, 110>>
           [] ch = <<9>> -> w = <<92, 116>>
           [] ch = <<13>> -> w = <<92, 114>>
           [] ch = <<8>> -> w = <<92, 98>>
           [] ch = <<12>> -> w = <<92, 102>>
           [] ch[1] < 32 -> /\ Len(w) = 6
                            /\ SubSeq(w, 1, 4) = <<92, 117, 48, 48>>
                            /\ IsHex(w[5]) /\ IsHex(w[6])
                            /\ 16 * HexVal(w[5]) + HexVal(w[6]) = ch[1]
           [] OTHER -> w = ch

\* the length of the escape of the character ch
EscapedLen(ch) ==
    IF Len(ch) > 1 THEN Len(ch)
    ELSE IF ch[1] \in {34, 92, 10, 9, 13, 8, 12} THEN 2
    ELSE IF ch[1] < 32 THEN 6
    ELSE 1

\* w, from position p, holds the escapes of the characters of s from
\* position i, in order, and then the closing quote as its last byte
RECURSIVE EscapesFrom(_, _, _, _)
EscapesFrom(s, i, w, p) ==
    IF i > Len(s) THEN p = Len(w) /\ w[p] = 34
    ELSE LET ch == SubSeq(s, i, i + CharLen(s[i]) - 1)
             n == EscapedLen(ch)
         IN  /\ p + n - 1 < Len(w)
             /\ EscapedAs(ch, SubSeq(w, p, p + n - 1))
             /\ EscapesFrom(s, i + Len(ch), w, p + n)

\* the position just after the first occurrence of pat in s at or after p
\* (0 if there is none)
After(s, pat, p) ==
    LET hits == {k \in p..(Len(s) - Len(pat) + 1) : SubSeq(s, k, k + Len(pat) - 1) = pat}
    IN  IF hits = {} THEN 0 ELSE (CHOOSE k \in hits : \A j \in hits : k <= j) + Len(pat)

\* the string literal the line carries right after its first ,"msg":
MsgLiteral(line) ==
    LET p == After(line, <<44, 34, 109, 115, 103, 34, 58>>, 1)
    IN  IF p = 0 THEN Bad ELSE ReadString(line, p)

\* the parsed line has a msg member and it is this text
ParsedMsgIs(line, text) ==
    /\ IsJsonObject(line)
    /\ HasKey(line, <<109, 115, 103>>)
    /\ Lookup(line, <<109, 115, 103>>).t = "string"
    /\ Lookup(line, <<109, 115, 103>>).s = text

C1_WitnessRecord ==
    /\ result = "Ok"
    /\ record.args = <<34>>
    /\ Len(record.key_values) = 2
    /\ MsgLiteral(f).v = <<34>>

\* C2: a successful encode of a record without attributes writes a line
\* that parses as a JSON object with exactly the keys level, ts, msg, once
\* each and in that order, level being the quoted name of the record's
\* severity.
C2_ThreeKeys ==
    (result = "Ok" /\ record.key_values = <<>>) =>
        /\ IsJsonObject(f)
        /\ KeysOf(f) = << <<108, 101, 118, 101, 108>>, <<116, 115>>, <<109, 115, 103>> >>
        /\ Lookup(f, <<108, 101, 118, 101, 108>>) = [t |-> "string", s |-> LevelName(record.level)]
        /\ LevelName(record.level) \in {<<69, 82, 82, 79, 82>>, <<87, 65, 82, 78>>, <<73, 78, 70, 79>>, <<68, 69, 66, 85, 71>>, <<84, 82, 65, 67, 69>>}

C2_Witness ==
    /\ result = "Ok"
    /\ record.key_values = <<>>
    /\ record.level = 2
    /\ record.args = <<34>>
    /\ SubSeq(f, 1, 17) = <<123, 34, 108, 101, 118, 101, 108, 34, 58, 34, 87, 65, 82, 78, 34, 44, 34>>

\* C3: write_json_str(s) writes an opening quote, then the escape of each
\* character of s in order (\" \\ \n \t \r \b \f, \u00XX for the other
\* characters below 0x20, every other character verbatim), then a closing
\* quote; quote, newline, tab gives exactly "\"\n\t"; no control byte and
\* no bare quote or backslash is ever copied.
C3_Escapes ==
    pc = "escaped" =>
        /\ Len(writer) >= 2
        /\ writer[1] = 34
        /\ EscapesFrom(raw, 1, writer, 2)
        /\ raw = <<34, 10, 9>> => writer = <<34, 92, 34, 92, 110, 92, 116, 34>>
        /\ \A k \in 1..Len(writer) : writer[k] >= 32
        /\ JsonStrDecode(writer).ok

C3_Witness ==
    /\ pc = "escaped"
    /\ raw = <<34, 10, 9>>
    /\ writer = <<34, 92, 34, 92, 110, 92, 116, 34>>

C3_WitnessControl ==
    /\ pc = "escaped"
    /\ raw = <<31, 195, 169>>
    /\ writer = <<34, 92, 117, 48, 48, 49, 102, 195, 169, 34>>

\* C4 as stated: every pair with a text value is written as an escaped
\* key and an escaped string, so the line parses and the value decoded
\* under the key is the original text.
C4_AsStated ==
    result = "Ok" =>
        \A k \in 1..Len(record.key_values) :
            record.key_values[k].val.kind = "str" =>
                /\ IsJsonObject(f)
                /\ HasKey(f, record.key_values[k].key)
                /\ Lookup(f, record.key_values[k].key).t = "string"
                /\ Lookup(f, record.key_values[k].key).s = record.key_values[k].val.s

\* the attribute keys of the record, in record order
AttrKeys(r) == [k \in 1..Len(r.key_values) |-> r.key_values[k].key]

\* the attribute keys differ from one another and from the fixed fields
UniqueKeys(r) ==
    /\ \A j, k \in 1..Len(r.key_values) : j # k => r.key_values[j].key # r.key_values[k].key
    /\ \A k \in 1..Len(r.key_values) : r.key_values[k].key \notin {<<108, 101, 118, 101, 108>>, <<116, 115>>, <<109, 115, 103>>}

\* C5 as stated: with N pairs of unique keys and scalar values the line
\* parses as a JSON object whose keys are level, ts, msg and then the N
\* attribute keys in record order.
C5_AsStated ==
    (result = "Ok" /\ UniqueKeys(record)) =>
        /\ IsJsonObject(f)
        /\ KeysOf(f) = << <<108, 101, 118, 101, 108>>, <<116, 115>>, <<109, 115, 103>> >> \o AttrKeys(record)

\* C6 as stated: the bytes of a successful call hold exactly one line
\* feed, the last byte, right after the closing brace.
C6_AsStated ==
    result = "Ok" =>
        /\ Len(f) >= 2
        /\ f[Len(f)] = 10
        /\ f[Len(f) - 1] = 125
        /\ Cardinality({k \in 1..Len(f) : f[k] = 10}) = 1

\* C7 as stated: once the stream has refused a write, the call has
\* returned (nothing more is written) and its result is that error.
C7_AsStated == io_error => (pc = "returned" /\ result = "Err")


---------------------------------------------------------------------------
(* Properties of the logger (specification SpecLogger).                    *)

\* the text is one line: a JSON object, then the only line feed
OneJsonLine(t) ==
    /\ IsJsonObject(t)
    /\ Len(t) >= 2
    /\ t[Len(t)] = 10
    /\ t[Len(t) - 1] = 125
    /\ Cardinality({k \in 1..Len(t) : t[k] = 10}) = 1

\* the target holds what write gives for the record, at some clock reading
Encoded(r) == \E now \in Clock : target = write(r, features.iso, now)

C8_WitnessHidden ==
    /\ logger = [filter |-> 3, format |-> "write"]
    /\ emitted = [level |-> 4, args |-> <<72, 101, 108, 108, 111>>, key_values |-> <<>>]
    /\ target = <<>>

\* C9: the first init()/try_init() call registers the JSON logger and
\* succeeds; every later try_init() returns SetLoggerError, every later
\* init() panics, and neither changes the registered logger; at most one
\* logger is ever registered.
C9_InitOnce ==
    /\ [](/\ registrations <= 1
          /\ (registrations = 0) = (logger = NoLogger)
          /\ attempts >= 1 => (registrations = 1 /\ logger.format = "write" /\ max_level = logger.filter)
          /\ attempts = 1 => ret.result = "Ok"
          /\ (attempts >= 2 /\ ret.op = "try_init") => ret.result = "SetLoggerError"
          /\ (attempts >= 2 /\ ret.op = "init") => ret.result = "panic")
    /\ [][logger # NoLogger => (logger' = logger /\ registrations' = registrations)]_vars

C9_Witness ==
    /\ attempts = 2
    /\ ret = [op |-> "try_init", result |-> "SetLoggerError"]
    /\ registrations = 1
    /\ logger.filter = 5

C9_WitnessPanic ==
    /\ attempts = 2
    /\ ret = [op |-> "init", result |-> "panic"]
    /\ registrations = 1

\* what the panic's record is to carry, read off the panic itself
PanicText(info) == IF info.payload.kind = "other" THEN <<66, 111, 120, 60, 65, 110, 121, 62>> ELSE info.payload.s

PanicThread(info) == IF info.thread.some THEN info.thread.name ELSE <<117, 110, 110, 97, 109, 101, 100>>

PanicLocation(info) == info.location.file \o <<58>> \o Decimal(info.location.line)

\* the record is an Error record with the panic's message, whose first
\* attribute is the thread's name
PanicHead ==
    /\ emitted.level = 1
    /\ emitted.args = <<112, 97, 110, 105, 99, 107, 101, 100, 32, 97, 116, 32, 39>> \o PanicText(panic_info) \o <<39>>
    /\ Len(emitted.key_values) >= 1
    /\ emitted.key_values[1] = [key |-> <<116, 104, 114, 101, 97, 100>>, val |-> Str(PanicThread(panic_info))]

\* the record went through the encoder if the logger lets errors through
PanicEncoded ==
    IF logger # NoLogger /\ logger.filter >= 1 THEN Encoded(emitted) ELSE target = <<>>

\* C10 as stated: the record of a panic has the keys thread and
\* location, followed by backtrace if and only if the option is enabled.
C10_AsStated ==
    panic_info # NoInfo =>
        /\ PanicHead
        /\ PanicEncoded
        /\ AttrKeys(emitted) = << <<116, 104, 114, 101, 97, 100>>, <<108, 111, 99, 97, 116, 105, 111, 110>> >>
                               \o (IF features.backtrace THEN << <<98, 97, 99, 107, 116, 114, 97, 99, 101>> >> ELSE <<>>)

\* C10 (amended): once panic_hook() is installed, every panic produces
\* exactly one record of level Error, fed through the same encoder, with
\* message "panicked at '<payload>'" (the payload's text, or Box<Any>
\* when it is neither a &str nor a String) and with the attribute keys
\* thread (the thread's name, or "unnamed"), then location ("file:line")
\* if and only if the panic carries a location, then backtrace if and
\* only if the backtrace option is enabled.
C10_PanicRecord ==
    panic_info # NoInfo =>
        /\ PanicHead
        /\ PanicEncoded
        /\ AttrKeys(emitted) = << <<116, 104, 114, 101, 97, 100>> >>
                               \o (IF panic_info.location.some THEN << <<108, 111, 99, 97, 116, 105, 111, 110>> >> ELSE <<>>)
                               \o (IF features.backtrace THEN << <<98, 97, 99, 107, 116, 114, 97, 99, 101>> >> ELSE <<>>)
        /\ panic_info.location.some =>
               emitted.key_values[2].val = Str(PanicLocation(panic_info))

C10_Witness ==
    /\ hook
    /\ panic_info.payload.kind = "other"
    /\ ~panic_info.thread.some
    /\ ~panic_info.location.some
    /\ features.backtrace
    /\ AttrKeys(emitted) = << <<116, 104, 114, 101, 97, 100>>, <<98, 97, 99, 107, 116, 114, 97, 99, 101>> >>
    /\ emitted.key_values[1].val.s = <<117, 110, 110, 97, 109, 101, 100>>
    /\ target # <<>>

C10_WitnessLocation ==
    /\ panic_info.location.some
    /\ ~features.backtrace
    /\ AttrKeys(emitted) = << <<116, 104, 114, 101, 97, 100>>, <<108, 111, 99, 97, 116, 105, 111, 110>> >>
    /\ emitted.key_values[2].val.s = <<109, 46, 114, 115, 58, 55>>


===========================================================================
